---------------------------- MODULE Spec2Model ----------------------------
(***************************************************************************)
(* MoodMelt dashboard (src/MoodMeltDashboardApp.py): header normalisation, *)
(* the record cleaner process_csv, the insight functions with their       *)
(* aggregates and texts, and get_overall_recommendations.                  *)
(*                                                                         *)
(* Text is modelled character by character: a Python str is a sequence of  *)
(* one-character strings, so that strip(), lower() and replace() are       *)
(* computed as Python computes them.  In the generated texts a run of the  *)
(* fixed prose of a template, which holds no '*' and no line break, is     *)
(* kept as one element.                                                    *)
(*                                                                         *)
(* Specifications:                                                         *)
(*   SpecNorm  normalize_column_name applied to bounded headers            *)
(*   Spec      one upload: pd.read_csv's table handed to process_csv       *)
(*   SpecCategory, SpecDaily, SpecSentiment, SpecTrend, SpecLocation,      *)
(*   SpecText  the chart and insight functions and                         *)
(*             get_overall_recommendations run, in the order the page      *)
(*             calls them, on a cleaned table                              *)
(*   SpecDirect  one of the insight functions called on a table that may   *)
(*             have no rows, the others after it                           *)
(***************************************************************************)
EXTENDS Integers, Sequences, FiniteSets, TLC

VARIABLES
    header, norm1, norm2, npc,      \* normalize_column_name: input, 1st and 2nd result
    raw, df, pc, exc, processed_df, \* the upload: table as read, the DataFrame object, outcome
    processed_columns,              \* the columns of processed_df
    stage,                          \* position in the page's sequence of insight calls
    returned,                       \* the function that returned last
    sorted_sentiments, engagements_by_date, sorted_platforms,
    sorted_media_types, sorted_locations, \* the aggregate of the function that returned last
    location_counts,                \* the frame of create_location_bar_chart
    insights,                       \* the list the last insight function returned
    recommendations                 \* the list get_overall_recommendations returned

vars == << header, norm1, norm2, npc, raw, df, pc, exc, processed_df,
           processed_columns, stage, returned,
           sorted_sentiments, engagements_by_date, sorted_platforms,
           sorted_media_types, sorted_locations,
           location_counts, insights, recommendations >>

normVars == << header, norm1, norm2, npc >>
uploadVars == << raw, df, pc, exc, processed_df, processed_columns >>
tableVars == << raw, df, pc, processed_df, processed_columns >>
insightVars == << stage, returned, sorted_sentiments, engagements_by_date, sorted_platforms,
                  sorted_media_types, sorted_locations,
                  location_counts, insights, recommendations >>

(***************************************************************************)
(* Bounds                                                                  *)
(***************************************************************************)
MaxHeaderLen == 3
MaxRows == 2
MaxCategoryRows == 4
MaxDailyRows == 3
MaxDirectRows == 1
MaxSentimentRows == 4
MaxTrendRows == 3
MaxLocationCount == 2
MaxTextRows == 2

(***************************************************************************)
(* Python str operations                                                   *)
(***************************************************************************)
\* Characters str.strip() removes (Python strips every whitespace character,
\* not only the blank; the tab stands for the non-blank ones).
Whitespace == {" ", "\t"}

RECURSIVE LStrip(_)
LStrip(s) == IF s = << >> THEN s
             ELSE IF Head(s) \in Whitespace THEN LStrip(Tail(s)) ELSE s

RECURSIVE RStrip(_)
RStrip(s) == IF s = << >> THEN s
             ELSE IF s[Len(s)] \in Whitespace THEN RStrip(SubSeq(s, 1, Len(s) - 1)) ELSE s

\* str.strip()
Strip(s) == RStrip(LStrip(s))

UpperLetters == << "A","B","C","D","E","F","G","H","I","J","K","L","M",
                   "N","O","P","Q","R","S","T","U","V","W","X","Y","Z" >>
LowerLetters == << "a","b","c","d","e","f","g","h","i","j","k","l","m",
                   "n","o","p","q","r","s","t","u","v","w","x","y","z" >>

LowerChar(c) == IF \E i \in DOMAIN UpperLetters : UpperLetters[i] = c
                THEN LowerLetters[CHOOSE i \in DOMAIN UpperLetters : UpperLetters[i] = c]
                ELSE c

\* str.lower()
Lower(s) == [i \in DOMAIN s |-> LowerChar(s[i])]

\* str.replace(c, '') for a one-character c
Remove(s, c) == SelectSeq(s, LAMBDA x : x # c)

\* normalize_column_name (line 133)
normalize_column_name(name) ==
    Remove(Remove(Remove(Lower(Strip(name)), " "), "-"), "_")

(***************************************************************************)
(* SpecNorm: normalize_column_name on every header of at most              *)
(* MaxHeaderLen characters over HeaderAlphabet                             *)
(***************************************************************************)
HeaderAlphabet == {"A", "a", " ", "-", "_", "\t"}

RECURSIVE StringsUpTo(_, _)
StringsUpTo(alphabet, n) ==
    IF n = 0 THEN {<< >>}
    ELSE LET shorter == StringsUpTo(alphabet, n - 1)
         IN  shorter \cup {Append(s, c) : s \in shorter, c \in alphabet}

\* A header names a column: it holds at least one letter
Headers ==
    {h \in StringsUpTo(HeaderAlphabet, MaxHeaderLen) : \E i \in DOMAIN h : h[i] \in {"A", "a"}}

NoTable == [columns |-> << >>, rows |-> << >>]

UploadIdle ==
    /\ raw = NoTable /\ df = NoTable /\ pc = "idle" /\ exc = "none"
    /\ processed_df = << >> /\ processed_columns = << >>

NothingComputed ==
    /\ returned = "none"
    /\ sorted_sentiments = << >> /\ engagements_by_date = << >>
    /\ sorted_platforms = << >> /\ sorted_media_types = << >>
    /\ sorted_locations = << >>
    /\ location_counts = << >>
    /\ insights = << >>
    /\ recommendations = << >>

InsightsIdle == stage = "idle" /\ NothingComputed

InitNorm ==
    /\ header \in Headers
    /\ norm1 = << >> /\ norm2 = << >> /\ npc = "start"
    /\ UploadIdle /\ InsightsIdle

\* key = normalize_column_name(col)
Normalize ==
    /\ npc = "start"
    /\ norm1' = normalize_column_name(header)
    /\ npc' = "once"
    /\ UNCHANGED << header, norm2, uploadVars, insightVars >>

\* normalize_column_name applied to its own result
NormalizeAgain ==
    /\ npc = "once"
    /\ norm2' = normalize_column_name(norm1)
    /\ npc' = "twice"
    /\ UNCHANGED << header, norm1, uploadVars, insightVars >>

NextNorm == Normalize \/ NormalizeAgain

SpecNorm == InitNorm /\ [][NextNorm]_vars

\* Two headers that differ only in letter case or in the presence of the
\* separators ' ', '-' and '_'
SameUpToCaseAndSeparators(h1, h2) ==
    Lower(Remove(Remove(Remove(h1, " "), "-"), "_"))
        = Lower(Remove(Remove(Remove(h2, " "), "-"), "_"))

\* C7: normalize_column_name is idempotent, and two headers that differ only
\* in letter case or in the presence of spaces, hyphens and underscores
\* normalize to the same key.
C7_IdempotentInsensitive ==
    /\ npc = "twice" => norm2 = norm1
    /\ npc # "start" =>
          \A h2 \in Headers :
              SameUpToCaseAndSeparators(header, h2) => normalize_column_name(h2) = norm1

(***************************************************************************)
(* Tables.  A cell of the table pd.read_csv returns is NaN (an empty       *)
(* field), a number (a field of a numeric column) or a str.                *)
(***************************************************************************)
NaN == [t |-> "nan"]
Num(tenths) == [t |-> "num", tenths |-> tenths]
Text(s) == [t |-> "str", s |-> s]
\* what row.get(col) returns when two columns carry the label col
SeriesValue == [t |-> "series"]

NaT == [t |-> "NaT"]
Timestamp(day, time) == [t |-> "ts", day |-> day, time |-> time]

Unknown == << "U","n","k","n","o","w","n" >>
UnknownMediaType == << "U","n","k","n","o","w","n"," ","M","e","d","i","a"," ","T","y","p","e" >>

c_date == << "d","a","t","e" >>
c_platform == << "p","l","a","t","f","o","r","m" >>
c_sentiment == << "s","e","n","t","i","m","e","n","t" >>
c_location == << "l","o","c","a","t","i","o","n" >>
c_engagements == << "e","n","g","a","g","e","m","e","n","t","s" >>
c_mediatype == << "m","e","d","i","a","t","y","p","e" >>

\* expected_columns (line 147)
expected_columns == << c_date, c_platform, c_sentiment, c_location, c_engagements, c_mediatype >>

text_columns == {c_platform, c_sentiment, c_location, c_mediatype}

\* pd.notna(value) for a scalar
NotNa(value) == value # NaN

Digits == << "0","1","2","3","4","5","6","7","8","9" >>
IsDigit(c) == \E i \in DOMAIN Digits : Digits[i] = c
DigitVal(c) == (CHOOSE i \in DOMAIN Digits : Digits[i] = c) - 1

\* An ISO calendar date YYYY-MM-DD
IsIsoDate(s) ==
    /\ Len(s) = 10
    /\ s[5] = "-" /\ s[8] = "-"
    /\ \A i \in {1, 2, 3, 4, 6, 7, 9, 10} : IsDigit(s[i])
    /\ 10 * DigitVal(s[6]) + DigitVal(s[7]) \in 1..12
    /\ 10 * DigitVal(s[9]) + DigitVal(s[10]) \in 1..28   \* a day every month has

IsoDay(s) ==
    10000 * (1000 * DigitVal(s[1]) + 100 * DigitVal(s[2]) + 10 * DigitVal(s[3]) + DigitVal(s[4]))
    + 100 * (10 * DigitVal(s[6]) + DigitVal(s[7]))
    + 10 * DigitVal(s[9]) + DigitVal(s[10])

\* The day of the Unix epoch: pd.to_datetime of a small number is that many
\* nanoseconds after it
EpochDay == IsoDay(<< "1","9","7","0","-","0","1","-","0","1" >>)

\* pd.to_datetime(value, errors='coerce') for a non-null scalar (line 162).
\* The texts of CellTexts are either an ISO date or not a date at all.
ToDatetime(value) ==
    IF value.t = "num" THEN Timestamp(EpochDay, 0)
    ELSE IF IsIsoDate(value.s) THEN Timestamp(IsoDay(value.s), 0)
    ELSE NaT

\* str(value) for a non-null scalar; a number n/10 prints as its decimal text
Str(value) ==
    IF value.t = "num"
    THEN << Digits[(value.tenths \div 10) + 1], ".", Digits[(value.tenths % 10) + 1] >>
    ELSE value.s

\* row.get(col) (line 159): the cell under the label col, a Series when the
\* label is carried by more than one column
RowGet(columns, row, col) ==
    LET at == {i \in DOMAIN columns : columns[i] = col}
    IN  IF Cardinality(at) = 1 THEN row[CHOOSE i \in at : TRUE] ELSE SeriesValue

Ok(v) == [ok |-> TRUE, v |-> v]
Raise(e) == [ok |-> FALSE, exc |-> e]

\* str(value).strip() without the null test: str(None) is 'None'
CleanTextNoNullTest(value) ==
    IF NotNa(value) THEN Strip(Str(value)) ELSE << "N","o","n","e" >>

\* line 166
CleanText(value) == IF NotNa(value) THEN Strip(Str(value)) ELSE Unknown

\* Lines 161-166 for one column of one row.  `if pd.notna(value)` on a Series
\* raises ValueError (its truth value is ambiguous); pd.to_numeric of a scalar
\* returns a scalar, which has no .fillna: AttributeError.
CleanCell(col, value) ==
    IF value = SeriesValue THEN Raise("ValueError")
    ELSE IF col = c_date THEN Ok(IF NotNa(value) THEN ToDatetime(value) ELSE NaT)
    ELSE IF col = c_engagements
         THEN IF NotNa(value) THEN Raise("AttributeError") ELSE Ok(0)
    ELSE Ok(CleanText(value))

FixMediaTypeNever(v) == v

\* lines 169-170
FixMediaType(v) == IF v = Unknown THEN UnknownMediaType ELSE v

\* Lines 157-172 for one row: the record, or the exception of the first
\* column (in expected_columns order) whose cleaning raises
NewRow(columns, row) ==
    LET res == [k \in DOMAIN expected_columns |->
                    CleanCell(expected_columns[k], RowGet(columns, row, expected_columns[k]))]
        bad == {k \in DOMAIN res : ~res[k].ok}
    IN  IF bad # {}
        THEN Raise(res[CHOOSE k \in bad : \A j \in bad : k <= j].exc)
        ELSE Ok([date        |-> res[1].v,
                 platform    |-> res[2].v,
                 sentiment   |-> res[3].v,
                 location    |-> res[4].v,
                 engagements |-> res[5].v,
                 mediatype   |-> FixMediaType(res[6].v)])

\* Lines 143-153: the headers replaced by their normalized keys, and a column
\* of None appended for every expected key that is absent
NormalizedColumns(columns) == [i \in DOMAIN columns |-> normalize_column_name(columns[i])]

MissingColumns(columns) ==
    SelectSeq(expected_columns, LAMBDA col : \A i \in DOMAIN columns : columns[i] # col)

WithExpectedColumns(table) ==
    LET cols == NormalizedColumns(table.columns)
        miss == MissingColumns(cols)
    IN  [columns |-> cols \o miss,
         rows |-> [r \in DOMAIN table.rows |-> table.rows[r] \o [j \in DOMAIN miss |-> NaN]]]

CleanRowsDropMissingDate(table) ==
    LET all == [r \in DOMAIN table.rows |-> NewRow(table.columns, table.rows[r]).v]
    IN  SelectSeq(all, LAMBDA rec : rec.date # NaT)

\* Lines 155-174 when no row raises: one record per row, in row order
CleanRows(table) ==
    [r \in DOMAIN table.rows |-> NewRow(table.columns, table.rows[r]).v]

RaisingRows(table) ==
    {r \in DOMAIN table.rows : ~NewRow(table.columns, table.rows[r]).ok}

(***************************************************************************)
(* Spec: one upload.  pd.read_csv (line 554) yields the table, process_csv *)
(* (line 556) is called on it once.                                        *)
(***************************************************************************)
h_Date == << "D","a","t","e" >>
h_Platform == << "P","l","a","t","f","o","r","m" >>
h_Engagements == << "E","n","g","a","g","e","m","e","n","t","s" >>
h_MediaType == << "M","e","d","i","a"," ","T","y","p","e" >>
h_media_type == << "m","e","d","i","a","_","t","y","p","e" >>
h_Extra == << "E","x","t","r","a" >>

HeaderPool == {h_Date, h_Platform, h_Engagements, h_MediaType, h_media_type, h_Extra}

t_blank == << " ", " " >>
t_unknown == << " ","U","n","k","n","o","w","n"," " >>
t_day == << "2","0","2","4","-","0","1","-","0","1" >>

CellTexts == {t_blank, t_unknown, t_day}

Cells == {NaN, Num(75)} \cup {Text(s) : s \in CellTexts}

\* Tables of one column and of two columns.  pd.read_csv renames repeated
\* headers, so the headers of a table differ.
HeaderLists ==
    {<< h >> : h \in HeaderPool}
        \cup {hg \in HeaderPool \X HeaderPool : hg[1] # hg[2]}

\* pd.read_csv types a column: numbers only appear in a column without text
WellTyped(column) ==
    (\E r \in DOMAIN column : column[r].t = "num")
        => \A r \in DOMAIN column : column[r].t # "str"

\* The columns of n cells that pd.read_csv can return
ColumnsOf(n) == {column \in [1..n -> Cells] : WellTyped(column)}

\* The table of the given headers whose j-th column is data[j]
TableOf(h, n, data) ==
    [columns |-> h,
     rows |-> [r \in 1..n |-> [j \in DOMAIN h |-> data[j][r]]]]

Init ==
    /\ \E h \in HeaderLists : \E n \in 0..MaxRows : \E data \in [DOMAIN h -> ColumnsOf(n)] :
          raw = TableOf(h, n, data)
    /\ df = raw
    /\ pc = "read"
    /\ exc = "none"
    /\ processed_df = << >> /\ processed_columns = << >>
    /\ header = << >> /\ norm1 = << >> /\ norm2 = << >> /\ npc = "idle"
    /\ InsightsIdle

\* process_csv on a table without rows (lines 138-140): an empty DataFrame,
\* pd.DataFrame(), without rows and without columns, is returned before
\* anything is touched
ProcessCsvEmpty ==
    /\ pc = "read"
    /\ df.rows = << >>
    /\ processed_df' = << >>
    /\ processed_columns' = << >>
    /\ pc' = "done"
    /\ UNCHANGED << raw, df, exc, normVars, insightVars >>

\* process_csv when every row is cleaned (lines 142-174).  df is the caller's
\* object: lines 144 and 153 assign to it.
ProcessCsvReturn ==
    /\ pc = "read"
    /\ df.rows # << >>
    /\ LET table == WithExpectedColumns(df)
       IN  /\ RaisingRows(table) = {}
           /\ df' = table
           /\ processed_df' = CleanRows(table)
    /\ processed_columns' = expected_columns
    /\ pc' = "done"
    /\ UNCHANGED << raw, exc, normVars, insightVars >>

\* process_csv when the cleaning of some row raises: the exception of the
\* first such row leaves the function, after lines 144 and 153 have run
ProcessCsvRaise ==
    /\ pc = "read"
    /\ df.rows # << >>
    /\ LET table == WithExpectedColumns(df)
           bad == RaisingRows(table)
       IN  /\ bad # {}
           /\ df' = table
           /\ exc' = NewRow(table.columns, table.rows[CHOOSE r \in bad : \A q \in bad : r <= q]).exc
    /\ pc' = "raised"
    /\ UNCHANGED << raw, processed_df, processed_columns, normVars, insightVars >>

Next == ProcessCsvEmpty \/ ProcessCsvReturn \/ ProcessCsvRaise

Spec == Init /\ [][Next]_vars

(***************************************************************************)
(* Claims about process_csv                                                *)
(***************************************************************************)
\* The columns of the table as read whose header normalizes to col
InputColumns(col) ==
    {i \in DOMAIN raw.columns : normalize_column_name(raw.columns[i]) = col}

\* The cell of row r of the table as read under the key col: NaN when the
\* table has no such column
InputCell(r, col) ==
    IF InputColumns(col) = {} THEN NaN
    ELSE raw.rows[r][CHOOSE i \in InputColumns(col) : \A j \in InputColumns(col) : i <= j]

NoRepeatedKey == \A k \in DOMAIN expected_columns : Cardinality(InputColumns(expected_columns[k])) <= 1

Field(rec, col) ==
    CASE col = c_date -> rec.date
      [] col = c_platform -> rec.platform
      [] col = c_sentiment -> rec.sentiment
      [] col = c_location -> rec.location
      [] col = c_engagements -> rec.engagements
      [] col = c_mediatype -> rec.mediatype

Default(col) ==
    CASE col = c_date -> NaT
      [] col = c_engagements -> 0
      [] col = c_mediatype -> UnknownMediaType
      [] OTHER -> Unknown

\* C1: process_csv never raises, whatever the cells and the headers are.
C1_NeverRaises == pc # "raised"

\* C2: the table process_csv returns has as many rows as the table it was
\* given.
C2_SameRowCount == pc = "done" => Len(processed_df) = Len(raw.rows)

C2_Witness ==
    /\ pc = "done"
    /\ Len(raw.rows) = 2
    /\ Len(processed_df) = 2
    /\ InputColumns(c_platform) = {}
    /\ \E r \in DOMAIN raw.rows :
          /\ InputCell(r, c_date).t = "str"
          /\ processed_df[r].date = NaT

\* C3: every record returned for a non-empty input has exactly the six
\* fields; a column absent from the input yields its default in every row;
\* no field other than date is null (text fields are text, engagements is an
\* integer).
C3_SixFieldsWithDefaults ==
    (pc = "done" /\ raw.rows # << >>) =>
        \A r \in DOMAIN processed_df :
            LET rec == processed_df[r]
            IN  /\ DOMAIN rec = {"date", "platform", "sentiment", "location",
                                 "engagements", "mediatype"}
                /\ \A k \in DOMAIN expected_columns :
                      InputColumns(expected_columns[k]) = {}
                          => Field(rec, expected_columns[k]) = Default(expected_columns[k])
                /\ \A col \in text_columns : Field(rec, col) \in Seq(STRING)
                /\ rec.engagements \in Int

C3_Witness ==
    /\ pc = "done"
    /\ Len(processed_df) = 2
    /\ \E i \in DOMAIN raw.columns : raw.columns[i] = h_Extra
    /\ InputColumns(c_date) # {}
    /\ InputColumns(c_mediatype) = {}
    /\ processed_df[1].mediatype = UnknownMediaType
    /\ processed_df[1].platform = Unknown
    /\ processed_df[1].engagements = 0

\* What the claim C4 expects of engagements: a number truncated to an
\* integer, 0 for an absent or unparseable cell
ExpectedEngagements(cell) == IF cell.t = "num" THEN cell.tenths \div 10 ELSE 0

\* C4: process_csv yields, for every row, a non-negative integer engagements:
\* the numeric input truncated, 0 for an absent or unparseable input.
C4_EngagementsInteger ==
    (pc \in {"done", "raised"} /\ NoRepeatedKey) =>
        /\ pc = "done"
        /\ Len(processed_df) = Len(raw.rows)
        /\ \A r \in DOMAIN processed_df :
              /\ processed_df[r].engagements = ExpectedEngagements(InputCell(r, c_engagements))
              /\ processed_df[r].engagements >= 0

\* The cell cleans to the bare 'Unknown': it is absent or trims to 'Unknown'
WouldBeUnknown(cell) == cell = NaN \/ (cell.t = "str" /\ Strip(cell.s) = Unknown)

\* C5: mediatype is never the bare 'Unknown': a value that would be 'Unknown'
\* is 'Unknown Media Type', while platform, sentiment and location keep
\* 'Unknown' as their default.
C5_MediaTypeSentinel ==
    pc = "done" =>
        \A r \in DOMAIN processed_df :
            /\ processed_df[r].mediatype # Unknown
            /\ WouldBeUnknown(InputCell(r, c_mediatype))
                  => processed_df[r].mediatype = UnknownMediaType
            /\ \A col \in {c_platform, c_sentiment, c_location} :
                  WouldBeUnknown(InputCell(r, col)) => Field(processed_df[r], col) = Unknown

C5_Witness ==
    /\ pc = "done"
    /\ \E r \in DOMAIN processed_df :
          /\ InputCell(r, c_mediatype) = Text(t_unknown)
          /\ processed_df[r].mediatype = UnknownMediaType
          /\ InputCell(r, c_platform) = NaN
          /\ processed_df[r].platform = Unknown

\* The cell is absent or empty once trimmed
BlankCell(cell) == cell = NaN \/ (cell.t = "str" /\ Strip(cell.s) = << >>)

\* C6: a cleaned text field is the input's text trimmed; an absent input and
\* an input that is empty after trimming both become the column default, so
\* no cleaned text field is the empty string.
C6_TextTrimmedNeverEmpty ==
    pc = "done" =>
        \A r \in DOMAIN processed_df : \A col \in text_columns :
            /\ Field(processed_df[r], col) # << >>
            /\ BlankCell(InputCell(r, col)) => Field(processed_df[r], col) = Default(col)
            /\ (~BlankCell(InputCell(r, col)) /\ ~WouldBeUnknown(InputCell(r, col)))
                  => Field(processed_df[r], col) = Strip(Str(InputCell(r, col)))

\* C8: process_csv leaves the caller's table as it was read: same headers,
\* same columns.
C8_InputNotMutated == pc \in {"done", "raised"} => df = raw

(***************************************************************************)
(* Aggregates of the insight functions.  A Series is a sequence of         *)
(* [key, val] entries in index order.                                      *)
(***************************************************************************)
Entry(key, val) == [key |-> key, val |-> val]

ColumnOf(table, col) == [r \in DOMAIN table |-> Field(table[r], col)]

\* The distinct elements of a sequence, in the order of their first appearance
RECURSIVE FirstSeen(_)
FirstSeen(seq) ==
    IF seq = << >> THEN << >>
    ELSE << Head(seq) >> \o FirstSeen(SelectSeq(Tail(seq), LAMBDA x : x # Head(seq)))

RECURSIVE SumEngagements(_)
SumEngagements(table) ==
    IF table = << >> THEN 0
    ELSE Head(table).engagements + SumEngagements(Tail(table))

\* Characters in code point order, which orders Python str
CodePointOrder == << " ", "*", "-", "." >> \o Digits \o UpperLetters \o << "_" >> \o LowerLetters
CodeRank(c) == CHOOSE i \in DOMAIN CodePointOrder : CodePointOrder[i] = c

RECURSIVE StrLess(_, _)
StrLess(a, b) ==
    IF b = << >> THEN FALSE
    ELSE IF a = << >> THEN TRUE
    ELSE IF Head(a) = Head(b) THEN StrLess(Tail(a), Tail(b))
    ELSE CodeRank(Head(a)) < CodeRank(Head(b))

RECURSIVE SortedKeys(_)
SortedKeys(keys) ==
    IF keys = {} THEN << >>
    ELSE LET least == CHOOSE k \in keys : \A other \in keys \ {k} : StrLess(k, other)
         IN  << least >> \o SortedKeys(keys \ {least})

\* The counting pass of Series.value_counts(): one entry per distinct value,
\* in the order of first appearance
CountValues(table, col) ==
    LET column == ColumnOf(table, col)
        keys == FirstSeen(column)
    IN  [k \in DOMAIN keys |->
            Entry(keys[k], Cardinality({r \in DOMAIN column : column[r] = keys[k]}))]

\* df.groupby(col)['engagements'].sum() (lines 276, 400): groupby sorts the
\* group keys, so the entries come in ascending key order
GroupBySum(table, col) ==
    LET column == ColumnOf(table, col)
        keys == SortedKeys({column[r] : r \in DOMAIN column})
    IN  [k \in DOMAIN keys |->
            Entry(keys[k], SumEngagements(SelectSeq(table, LAMBDA rec : Field(rec, col) = keys[k])))]

\* The series without its i-th entry
WithoutEntry(series, i) ==
    [k \in 1..(Len(series) - 1) |-> IF k < i THEN series[k] ELSE series[k + 1]]

RECURSIVE SortValuesAscending(_)
SortValuesAscending(series) ==
    IF series = << >> THEN {<< >>}
    ELSE LET least == {i \in DOMAIN series :
                          \A j \in DOMAIN series : series[i].val <= series[j].val}
         IN  UNION {{<< series[i] >> \o rest :
                        rest \in SortValuesAscending(WithoutEntry(series, i))} : i \in least}

\* Series.sort_values(ascending=False) with the default kind='quicksort',
\* which is not a stable sort: every arrangement of the entries in
\* non-increasing order of val is a possible result (any entry of the
\* largest val first, then any such arrangement of the others)
RECURSIVE SortValuesDescending(_)
SortValuesDescending(series) ==
    IF series = << >> THEN {<< >>}
    ELSE LET largest == {i \in DOMAIN series :
                            \A j \in DOMAIN series : series[j].val <= series[i].val}
         IN  UNION {{<< series[i] >> \o rest :
                        rest \in SortValuesDescending(WithoutEntry(series, i))} : i \in largest}

\* df[col].value_counts() followed by .sort_values(ascending=False)
\* (lines 197-201, 307-311, 335-338).  value_counts sorts its counts with
\* the same sort_values; sorting any of its results again can give every
\* non-increasing arrangement once more, so the two sorts admit exactly the
\* arrangements of one.
SortedValueCounts(table, col) == SortValuesDescending(CountValues(table, col))

\* lines 276-279
SortedGroupSums(table, col) == SortValuesDescending(GroupBySum(table, col))

\* df.dropna(subset=['date']) (line 241)
DropNaDate(table) == SelectSeq(table, LAMBDA rec : rec.date # NaT)

TimestampLeq(a, b) == a.day < b.day \/ (a.day = b.day /\ a.time <= b.time)

\* df_clean.sort_values('date') (line 243); the order of rows of equal date
\* does not reach the sums below
RECURSIVE SortByDate(_)
SortByDate(table) ==
    IF table = << >> THEN << >>
    ELSE LET first == CHOOSE r \in DOMAIN table :
                          \A q \in DOMAIN table :
                              /\ TimestampLeq(table[r].date, table[q].date)
                              /\ (table[q].date = table[r].date => r <= q)
         IN  << table[first] >>
                 \o SortByDate([i \in 1..(Len(table) - 1) |->
                                   IF i < first THEN table[i] ELSE table[i + 1]])

RECURSIVE AscendingSeq(_)
AscendingSeq(numbers) ==
    IF numbers = {} THEN << >>
    ELSE LET least == CHOOSE n \in numbers : \A m \in numbers : n <= m
         IN  << least >> \o AscendingSeq(numbers \ {least})

\* A mis-grouping: by the full timestamp instead of its calendar date
EngagementsByTimestamp(table) ==
    LET clean == SortByDate(DropNaDate(table))
        stamps == FirstSeen([r \in DOMAIN clean |-> clean[r].date])
    IN  [k \in DOMAIN stamps |->
            Entry(stamps[k].day,
                  SumEngagements(SelectSeq(clean, LAMBDA rec : rec.date = stamps[k])))]

\* Lines 241-244: df_clean.groupby(df_clean['date'].dt.date)['engagements'].sum()
EngagementsByDate(table) ==
    LET clean == SortByDate(DropNaDate(table))
        days == AscendingSeq({clean[r].date.day : r \in DOMAIN clean})
    IN  [k \in DOMAIN days |->
            Entry(days[k],
                  SumEngagements(SelectSeq(clean, LAMBDA rec : rec.date.day = days[k])))]

Positive == << "P","o","s","i","t","i","v","e" >>
Negative == << "N","e","g","a","t","i","v","e" >>
Neutral == << "N","e","u","t","r","a","l" >>

SentimentNames == << Positive, Negative, Neutral >>
PlatformNames == << << "X" >>, << "F","b" >>, Unknown >>
MediaTypeNames == << << "V","i","d","e","o" >>, << "I","m","a","g","e" >>, UnknownMediaType >>
LocationNames == << << "R","o","m","e" >>, << "O","s","l","o" >>, Unknown >>

(***************************************************************************)
(* The texts of the insight functions.  Numbers are formatted as Python    *)
(* formats them: the float divisions of lines 206, 253 and 314 are exact   *)
(* enough, for tables of the sizes checked here, that rounding the exact   *)
(* quotient half-to-even gives the digits of the format specs .1f and .0f. *)
(***************************************************************************)
\* str(n) for an int n >= 0
RECURSIVE IntStr(_)
IntStr(n) == IF n < 10 THEN << Digits[n + 1] >>
             ELSE IntStr(n \div 10) \o << Digits[(n % 10) + 1] >>

\* str(d) for a datetime.date d: YYYY-MM-DD
DateStr(day) ==
    LET y == day \div 10000
        m == (day \div 100) % 100
        d == day % 100
    IN  << Digits[(y \div 1000) + 1], Digits[((y \div 100) % 10) + 1],
           Digits[((y \div 10) % 10) + 1], Digits[(y % 10) + 1], "-",
           Digits[(m \div 10) + 1], Digits[(m % 10) + 1], "-",
           Digits[(d \div 10) + 1], Digits[(d % 10) + 1] >>

\* num / den rounded to an integer, halves to the even neighbour
RoundHalfEven(num, den) ==
    LET q == num \div den
        r == num % den
    IN  IF 2 * r > den \/ (2 * r = den /\ q % 2 = 1) THEN q + 1 ELSE q

\* f"{(count / total * 100):.1f}" (lines 206-207, 211-212, 314-315)
FormatPercent(count, total) ==
    LET tenths == RoundHalfEven(1000 * count, total)
    IN  IntStr(tenths \div 10) \o << "." >> \o IntStr(tenths % 10)

\* average_engagements = total_engagements / len(engagements_by_date),
\* f"{average_engagements:.0f}" (lines 252-253, 258)
FormatAverage(total, count) == IntStr(RoundHalfEven(total, count))

Bold(s) == << "*", "*" >> \o s \o << "*", "*" >>
\* The grave accent that opens and closes a code span; it is spelt out
\* because a TLA+ string cannot hold the character itself
Backtick == "grave accent"
Code(s) == << Backtick >> \o s \o << Backtick >>

\* line 199
NoSentimentData == << "No sentiment data to analyze." >>
\* line 218
NoSentimentInsights == << "No sentiment data available for insights." >>
\* line 246
NoEngagementData == << "No engagement data to analyze." >>
\* line 277
NoPlatformData == << "No platform engagement data to analyze." >>
\* line 309
NoMediaTypeData == << "No media type data to analyze." >>
\* line 336
NoLocationData == << "No location data to analyze." >>

\* Lines 198-219, sorted_sentiments being the result of line 201
SentimentInsightList(table, sorted) ==
    LET total == Len(table)
        last == Len(sorted)
    IN  IF total = 0 THEN << NoSentimentData >>
        ELSE IF sorted = << >> THEN << NoSentimentInsights >>
        ELSE << Bold(<< "1." >>) \o << " Looks like a good vibe! " >> \o Code(sorted[1].key)
                    \o << " is the most common sentiment, making up about " >>
                    \o Bold(FormatPercent(sorted[1].val, total) \o << "%" >>)
                    \o << " of the buzz." >>,
                (IF last > 1
                 THEN Bold(<< "2." >>) \o << " Keep an eye on " >> \o Code(sorted[last].key)
                         \o << " sentiment, as it's the least frequent, representing only " >>
                         \o Bold(FormatPercent(sorted[last].val, total) \o << "%" >>)
                         \o << "." >>
                 ELSE Bold(<< "2." >>)
                         \o << " Only one sentiment category found. Consider diversifying content to get varied reactions." >>),
                Bold(<< "3." >>)
                    \o << " The spread of sentiments gives you a snapshot of overall perception. Are you seeing more positive apples or sour lemons?" >> >>

RECURSIVE SeriesSum(_)
SeriesSum(series) == IF series = << >> THEN 0 ELSE Head(series).val + SeriesSum(Tail(series))

\* Series.max(), Series.min()
SeriesMax(series) == CHOOSE v \in {series[i].val : i \in DOMAIN series} :
                         \A i \in DOMAIN series : series[i].val <= v
SeriesMin(series) == CHOOSE v \in {series[i].val : i \in DOMAIN series} :
                         \A i \in DOMAIN series : series[i].val >= v

IdxMaxLast(series) ==
    series[CHOOSE i \in DOMAIN series :
               /\ series[i].val = SeriesMax(series)
               /\ \A j \in DOMAIN series : series[j].val = SeriesMax(series) => j <= i].key

\* Series.idxmax(), Series.idxmin(): the label of the first occurrence of the
\* extreme
IdxMax(series) ==
    series[CHOOSE i \in DOMAIN series :
               /\ series[i].val = SeriesMax(series)
               /\ \A j \in DOMAIN series : series[j].val = SeriesMax(series) => i <= j].key

IdxMin(series) ==
    series[CHOOSE i \in DOMAIN series :
               /\ series[i].val = SeriesMin(series)
               /\ \A j \in DOMAIN series : series[j].val = SeriesMin(series) => i <= j].key

\* line 256
PeakInsight(max_date, max_engagements) ==
    Bold(<< "1." >>) \o << " Wow! Your peak engagement happened on " >>
        \o Bold(max_date) \o << " with a juicy " >> \o Bold(max_engagements)
        \o << " engagements! What fresh content did you share then?" >>

\* line 257
LowInsight(min_date, min_engagements) ==
    Bold(<< "2." >>) \o << " Keep an eye on " >> \o Bold(min_date)
        \o << ", which saw the lowest engagements at " >> \o Bold(min_engagements)
        \o << ". Time to sprinkle some new ideas?" >>

\* line 258
AverageInsight(average_engagements) ==
    Bold(<< "3." >>) \o << " On average, you're gathering about " >>
        \o Bold(average_engagements)
        \o << " engagements daily. Consistent growth is key, like a ripening fruit!" >>

\* Lines 246-260, engagements_by_date being the result of line 244
EngagementInsightList(series) ==
    IF series = << >> THEN << NoEngagementData >>
    ELSE << PeakInsight(DateStr(IdxMax(series)), IntStr(SeriesMax(series))),
            LowInsight(DateStr(IdxMin(series)), IntStr(SeriesMin(series))),
            AverageInsight(FormatAverage(SeriesSum(series), Len(series))) >>

\* Lines 277-286, sorted_platforms being the result of line 279
PlatformInsightList(sorted) ==
    IF sorted = << >> THEN << NoPlatformData >>
    ELSE << Bold(<< "1." >>) \o << " " >> \o Code(sorted[1].key)
                \o << " is your superstar platform, raking in a whopping " >>
                \o Bold(IntStr(sorted[1].val))
                \o << " engagements! Keep that content flowing there!" >>,
            Bold(<< "2." >>) \o << " Time to sprinkle some love on " >>
                \o Code(sorted[Len(sorted)].key)
                \o << ", which currently has the fewest engagements at " >>
                \o Bold(IntStr(sorted[Len(sorted)].val))
                \o << ". Can you grow it like a new sprout?" >>,
            Bold(<< "3." >>)
                \o << " Observe the engagement spread across platforms. Are certain platforms serving up specific types of interactions better than others?" >> >>

\* Lines 308-318, sorted_media_types being the result of line 311
MediaTypeInsightList(table, sorted) ==
    LET total == Len(table)
    IN  IF total = 0 THEN << NoMediaTypeData >>
        ELSE << Bold(<< "1." >>) \o << " Your content recipe is heavy on " >>
                    \o Code(sorted[1].key) \o << ", making up about " >>
                    \o Bold(FormatPercent(sorted[1].val, total) \o << "%" >>)
                    \o << "! It's clearly a crowd-pleaser." >>,
                Bold(<< "2." >>) \o << " Perhaps try adding more " >>
                    \o Code(sorted[Len(sorted)].key)
                    \o << " to your mix, as it's currently the least used type at " >>
                    \o Bold(FormatPercent(sorted[Len(sorted)].val, total) \o << "%" >>)
                    \o << "." >>,
                Bold(<< "3." >>)
                    \o << " Understanding your media mix helps optimize your content strategy. Are you using the right fruits for the right occasion?" >> >>

\* line 342
NurtureInsight(location, mentions) ==
    Bold(<< "2." >>) \o << " Consider nurturing connections in " >> \o Code(location)
        \o << " (among the top 5), which has " >> \o Bold(mentions) \o << " mentions." >>

\* Lines 336-345, sorted_locations being the result of line 338
LocationInsightList(sorted) ==
    IF sorted = << >> THEN << NoLocationData >>
    ELSE << Bold(<< "1." >>) \o << " Your biggest fan base is in " >> \o Code(sorted[1].key)
                \o << ", with a huge " >> \o Bold(IntStr(sorted[1].val))
                \o << " mentions! Time for a virtual fruit-picking party there!" >>,
            NurtureInsight(sorted[Len(sorted)].key, IntStr(sorted[Len(sorted)].val)),
            Bold(<< "3." >>)
                \o << " Knowing your top locations helps target your content like a perfectly aimed seed. Where can you make the most impact?" >> >>

\* head(5) (line 323)
TopN == 5

SeriesHeadAll(series, n) == series

\* DataFrame.head(n)
SeriesHead(series, n) == SubSeq(series, 1, IF Len(series) < n THEN Len(series) ELSE n)

\* Lines 321-323: the frame behind the 'Top 5 Locations' chart
TopLocationCounts(table) ==
    {SeriesHead(sorted, TopN) : sorted \in SortedValueCounts(table, c_location)}

(***************************************************************************)
(* get_overall_recommendations (lines 348-435)                             *)
(***************************************************************************)
\* line 352
UploadYourCsv == << "Upload your CSV file to get some juicy business recommendations!" >>

\* lines 362, 364, 366, 368, 370
AudienceLoving ==
    << "Overall, your " >> \o Bold(<< "audience is loving your content!" >>)
        \o << " Keep doing what you're doing and explore ways to amplify your most successful messages." >>
NegativeSentiment ==
    << "There's a significant amount of " >> \o Bold(<< "negative sentiment" >>)
        \o << ". It's crucial to investigate the root causes and address concerns directly to improve brand perception." >>
NeutralSentiment ==
    << "A lot of " >> \o Bold(<< "neutral sentiment" >>)
        \o << " suggests your content might not be sparking strong reactions. Experiment with bolder messaging or more engaging formats to drive stronger opinions." >>
MixedBag ==
    << "Sentiment is a mixed bag. Focus on understanding specific comments in each category to find actionable opportunities for improvement or replication of success." >>
NoClearSentiment == << "No clear sentiment data available to draw strong conclusions." >>

\* lines 386, 388, 390, 392, 394, 396
UpwardTrajectory ==
    << "Your " >> \o Bold(<< "engagement is on a fantastic upward trajectory" >>)
        \o << "! Double down on the strategies that are driving this growth, and consider investing more in these areas." >>
EngagementDeclining ==
    Bold(<< "Engagement is declining" >>)
        \o << ". It's time for a thorough content audit. Analyze what might have changed and what resonated previously to re-engage your audience." >>
StableEngagement ==
    Bold(<< "Stable engagement" >>)
        \o << " indicates a consistent audience. To drive further growth, explore new content pillars, target audiences, or platforms." >>
NoClearTrend ==
    << "Engagement data is available but shows no clear trend yet. Continue monitoring daily engagements for patterns." >>
LimitedEngagementData ==
    << "Limited engagement data available. Upload more dates to observe trends and get more precise recommendations." >>
NoEngagementFound == << "No engagement data found for trend analysis." >>

\* lines 404, 406, 408
FocusOn(platform) ==
    Bold(<< "Focus on " >> \o platform)
        \o << ", your highest-performing platform. Allocate more resources here for maximum impact, but also consider diversifying slowly." >>
PlatformMissing ==
    << "Platform data is missing for some entries. Ensure \"Platform\" column is correctly filled in your CSV for better insights." >>
NoPlatformFound ==
    << "No platform data found. Please ensure your CSV includes a \"Platform\" column to identify key channels." >>

\* lines 416, 418, 420
ContentIsAHit(media_type) ==
    << "Your " >> \o Bold(media_type)
        \o << " content is a hit! Create more content in this format, and consider repurposing existing popular content into this media type." >>
MediaTypeMissing ==
    << "Media Type data is missing for some entries. Fill out the \"Media Type\" column in your CSV for clearer content insights." >>
NoMediaTypeFound ==
    << "No media type data found. Please ensure your CSV includes a \"Media Type\" column to understand content preferences." >>

\* lines 428, 430, 432
Target(location) ==
    Bold(<< "Target " >> \o location)
        \o << " with localized campaigns or content. This region is a hot spot for your audience!" >>
LocationMissing ==
    << "Location data is missing for some entries. Ensure the \"Location\" column is populated in your CSV to understand geographic reach." >>
NoLocationFound ==
    << "No location data found. Please ensure your CSV includes a \"Location\" column to identify where your audience is blooming." >>

\* sentiment_counts.get(name, 0) (lines 355-359)
SentimentCount(table, name) ==
    Cardinality({r \in DOMAIN table : table[r].sentiment = name})

SentimentPlurality(table) ==
    LET positive_count == SentimentCount(table, Positive)
        negative_count == SentimentCount(table, Negative)
        neutral_count == SentimentCount(table, Neutral)
    IN  IF positive_count >= negative_count /\ positive_count >= neutral_count
        THEN AudienceLoving
        ELSE IF negative_count >= positive_count /\ negative_count >= neutral_count
        THEN NegativeSentiment
        ELSE IF neutral_count >= positive_count /\ neutral_count >= negative_count
        THEN NeutralSentiment
        ELSE IF Len(table) > 0 THEN MixedBag
        ELSE NoClearSentiment

\* lines 355-370
SentimentRecommendation(table) ==
    LET positive_count == SentimentCount(table, Positive)
        negative_count == SentimentCount(table, Negative)
        neutral_count == SentimentCount(table, Neutral)
    IN  IF positive_count > negative_count /\ positive_count > neutral_count
        THEN AudienceLoving
        ELSE IF negative_count > positive_count /\ negative_count > neutral_count
        THEN NegativeSentiment
        ELSE IF neutral_count > positive_count /\ neutral_count > negative_count
        THEN NeutralSentiment
        ELSE IF Len(table) > 0 THEN MixedBag
        ELSE NoClearSentiment

TrendWithoutTotalTest(series) ==
    LET first_eng == series[1].val
        last_eng == series[Len(series)].val
    IN  IF Len(series) > 1
        THEN IF 10 * last_eng > 11 * first_eng THEN UpwardTrajectory
             ELSE IF 10 * last_eng < 9 * first_eng THEN EngagementDeclining
             ELSE StableEngagement
        ELSE IF Len(series) > 0 THEN LimitedEngagementData
        ELSE NoEngagementFound

\* Lines 379-396, engagements_by_date being the result of line 377.  The
\* sums are integers: last_eng > first_eng * 1.1 compares as
\* 10 * last_eng > 11 * first_eng, and last_eng < first_eng * 0.9 as
\* 10 * last_eng < 9 * first_eng (the float products round to the same
\* side of every integer).
TrendRecommendation(series) ==
    LET first_eng == series[1].val
        last_eng == series[Len(series)].val
        total_engagements == SeriesSum(series)
    IN  IF Len(series) > 1
        THEN IF total_engagements > 0
             THEN IF 10 * last_eng > 11 * first_eng THEN UpwardTrajectory
                  ELSE IF 10 * last_eng < 9 * first_eng THEN EngagementDeclining
                  ELSE StableEngagement
             ELSE NoClearTrend
        ELSE IF Len(series) > 0 THEN LimitedEngagementData
        ELSE NoEngagementFound

\* lines 403-408, sorted_platforms being the result of line 401
PlatformRecommendation(sorted) ==
    IF sorted # << >> /\ sorted[1].key # Unknown /\ sorted[1].val > 0
    THEN FocusOn(sorted[1].key)
    ELSE IF sorted # << >> /\ sorted[1].key = Unknown THEN PlatformMissing
    ELSE NoPlatformFound

\* lines 415-420, sorted_media_types being the result of line 413
MediaTypeRecommendation(sorted) ==
    IF sorted # << >> /\ sorted[1].key # UnknownMediaType /\ sorted[1].val > 0
    THEN ContentIsAHit(sorted[1].key)
    ELSE IF sorted # << >> /\ sorted[1].key = UnknownMediaType THEN MediaTypeMissing
    ELSE NoMediaTypeFound

\* lines 427-432, sorted_locations being the result of line 425
LocationRecommendation(sorted) ==
    IF sorted # << >> /\ sorted[1].key # Unknown /\ sorted[1].val > 0
    THEN Target(sorted[1].key)
    ELSE IF sorted # << >> /\ sorted[1].key = Unknown THEN LocationMissing
    ELSE NoLocationFound

(***************************************************************************)
(* PDF.chapter_body (lines 457-476)                                        *)
(***************************************************************************)
\* "\n".join(lines)
RECURSIVE JoinLines(_)
JoinLines(lines) ==
    IF lines = << >> THEN << >>
    ELSE IF Len(lines) = 1 THEN lines[1]
    ELSE lines[1] \o << "\n" >> \o JoinLines(Tail(lines))

\* s.split('\n'), cur being the part read so far
RECURSIVE SplitLines(_, _)
SplitLines(s, cur) ==
    IF s = << >> THEN << cur >>
    ELSE IF Head(s) = "\n" THEN << cur >> \o SplitLines(Tail(s), << >>)
    ELSE SplitLines(Tail(s), Append(cur, Head(s)))

\* s.split('**') (line 468), cur being the part read so far: the markers
\* are matched from the left, without overlap
RECURSIVE SplitBold(_, _)
SplitBold(s, cur) ==
    IF s = << >> THEN << cur >>
    ELSE IF Len(s) >= 2 /\ s[1] = "*" /\ s[2] = "*"
    THEN << cur >> \o SplitBold(SubSeq(s, 3, Len(s)), << >>)
    ELSE SplitBold(Tail(s), Append(cur, Head(s)))

\* Lines 462-474 for one line: what is written, part by part, and in which
\* weight; an empty line writes nothing
LineWrites(line_raw) ==
    LET stripped == Strip(line_raw)
        line == IF Len(stripped) >= 2 /\ stripped[1] = "-" /\ stripped[2] = " "
                THEN SubSeq(stripped, 3, Len(stripped)) ELSE stripped
        parts == SplitBold(line, << >>)
    IN  IF stripped = << >> THEN << >>
        ELSE [i \in DOMAIN parts |-> [bold |-> (i - 1) % 2 = 1, text |-> parts[i]]]

\* chapter_body(body_text): the writes of every line that is not empty
chapter_body(body_text) ==
    LET body_text_lines == SplitLines(body_text, << >>)
        writes == [l \in DOMAIN body_text_lines |-> LineWrites(body_text_lines[l])]
    IN  SelectSeq(writes, LAMBDA w : w # << >>)

\* df.empty: no rows or no columns
IsEmpty(table, columns) == table = << >> \/ columns = << >>

\* get_overall_recommendations (lines 348-435), the sorted aggregates being
\* the results of lines 401, 413 and 425
OverallRecommendations(table, columns, platforms, media_types, locations) ==
    IF IsEmpty(table, columns) THEN << UploadYourCsv >>
    ELSE << SentimentRecommendation(table),
            TrendRecommendation(EngagementsByDate(table)),
            PlatformRecommendation(platforms),
            MediaTypeRecommendation(media_types),
            LocationRecommendation(locations) >>

(***************************************************************************)
(* The chart and insight functions and get_overall_recommendations on a    *)
(* cleaned table, in the order the page calls them (lines 589-662).  The   *)
(* page calls them only on a table with rows (line 558).  Of the chart     *)
(* functions only create_location_bar_chart, whose frame differs from the  *)
(* aggregate of its insight function, is an action.  The tables are        *)
(* records of the schema process_csv produces; SpecCategory varies the     *)
(* category fields and leaves the dates missing, SpecDaily varies the      *)
(* dates.                                                                  *)
(***************************************************************************)
\* A cleaned record whose four category fields are the k-th names
CleanRecord(date, k, engagements) ==
    [date        |-> date,
     platform    |-> PlatformNames[k],
     sentiment   |-> SentimentNames[k],
     location    |-> LocationNames[k],
     engagements |-> engagements,
     mediatype   |-> MediaTypeNames[k]]

CategoryEngagements == {0, 10}
DailyEngagements == {0, 9, 10, 12}
Day1 == IsoDay(t_day)
Day2 == Day1 + 1
Noon == 12 * 60
DailyDates == {NaT, Timestamp(Day1, 0), Timestamp(Day1, Noon), Timestamp(Day2, 0)}

CategoryRecords ==
    {CleanRecord(NaT, k, e) : k \in DOMAIN SentimentNames, e \in CategoryEngagements}

DailyRecords == {CleanRecord(d, 1, e) : d \in DailyDates, e \in DailyEngagements}

CategoryTables == UNION {[1..n -> CategoryRecords] : n \in 1..MaxCategoryRows}
DailyTables == UNION {[1..n -> DailyRecords] : n \in 1..MaxDailyRows}

InsightsStart ==
    /\ raw = NoTable /\ df = NoTable /\ pc = "done" /\ exc = "none"
    /\ header = << >> /\ norm1 = << >> /\ norm2 = << >> /\ npc = "idle"
    /\ processed_columns = expected_columns
    /\ stage = "sentiment"
    /\ NothingComputed

InitCategory == processed_df \in CategoryTables /\ InsightsStart

InitDaily == processed_df \in DailyTables /\ InsightsStart

\* df[col], df.groupby(col), df.dropna(subset=[col]) raise KeyError on a
\* table without the column col
HasColumn(col) == \E i \in DOMAIN processed_columns : processed_columns[i] = col

\* What a call leaves in the state: the aggregate it computed and the list
\* it returned.  The aggregates are locals and the page keeps no list
\* (lines 589-590), so those of the calls before are gone.
Returns(function, sentiments, by_date, platforms, media_types, locations, counts, list) ==
    /\ returned' = function
    /\ sorted_sentiments' = sentiments
    /\ engagements_by_date' = by_date
    /\ sorted_platforms' = platforms
    /\ sorted_media_types' = media_types
    /\ sorted_locations' = locations
    /\ location_counts' = counts
    /\ insights' = list

\* The exception leaves the function: nothing is returned and the calls
\* after it are not reached
RaiseKeyError ==
    /\ exc' = "KeyError"
    /\ stage' = "raised"
    /\ Returns("none", << >>, << >>, << >>, << >>, << >>, << >>, << >>)

\* get_sentiment_insights (lines 196-219), called at line 589
GetSentimentInsights ==
    /\ stage = "sentiment"
    /\ IF ~HasColumn(c_sentiment) THEN RaiseKeyError
       ELSE /\ IF processed_df = << >>
               THEN Returns("sentiment", << >>, << >>, << >>, << >>, << >>, << >>,
                            SentimentInsightList(processed_df, << >>))
               ELSE \E sorted \in SortedValueCounts(processed_df, c_sentiment) :
                       Returns("sentiment", sorted, << >>, << >>, << >>, << >>, << >>,
                               SentimentInsightList(processed_df, sorted))
            /\ stage' = "engagement"
            /\ exc' = exc
    /\ UNCHANGED << normVars, tableVars, recommendations >>

\* get_engagement_insights (lines 240-260), called at line 604
GetEngagementInsights ==
    /\ stage = "engagement"
    /\ IF ~HasColumn(c_date) \/ ~HasColumn(c_engagements) THEN RaiseKeyError
       ELSE /\ Returns("engagement", << >>, EngagementsByDate(processed_df),
                       << >>, << >>, << >>, << >>,
                       EngagementInsightList(EngagementsByDate(processed_df)))
            /\ stage' = "platform"
            /\ exc' = exc
    /\ UNCHANGED << normVars, tableVars, recommendations >>

\* get_platform_insights (lines 275-286), called at line 619
GetPlatformInsights ==
    /\ stage = "platform"
    /\ IF ~HasColumn(c_platform) \/ ~HasColumn(c_engagements) THEN RaiseKeyError
       ELSE /\ IF processed_df = << >>
               THEN Returns("platform", << >>, << >>, << >>, << >>, << >>, << >>,
                            PlatformInsightList(<< >>))
               ELSE \E sorted \in SortedGroupSums(processed_df, c_platform) :
                       Returns("platform", << >>, << >>, sorted, << >>, << >>, << >>,
                               PlatformInsightList(sorted))
            /\ stage' = "media"
            /\ exc' = exc
    /\ UNCHANGED << normVars, tableVars, recommendations >>

\* get_media_type_insights (lines 306-318), called at line 634
GetMediaTypeInsights ==
    /\ stage = "media"
    /\ IF ~HasColumn(c_mediatype) THEN RaiseKeyError
       ELSE /\ IF processed_df = << >>
               THEN Returns("media", << >>, << >>, << >>, << >>, << >>, << >>,
                            MediaTypeInsightList(processed_df, << >>))
               ELSE \E sorted \in SortedValueCounts(processed_df, c_mediatype) :
                       Returns("media", << >>, << >>, << >>, sorted, << >>, << >>,
                               MediaTypeInsightList(processed_df, sorted))
            /\ stage' = "chart"
            /\ exc' = exc
    /\ UNCHANGED << normVars, tableVars, recommendations >>

\* create_location_bar_chart (lines 320-332), called at line 647
CreateLocationBarChart ==
    /\ stage = "chart"
    /\ IF ~HasColumn(c_location) THEN RaiseKeyError
       ELSE /\ \E counts \in TopLocationCounts(processed_df) :
                  Returns("chart", << >>, << >>, << >>, << >>, << >>, counts, << >>)
            /\ stage' = "location"
            /\ exc' = exc
    /\ UNCHANGED << normVars, tableVars, recommendations >>

\* get_location_insights (lines 334-345), called at line 649
GetLocationInsights ==
    /\ stage = "location"
    /\ IF ~HasColumn(c_location) THEN RaiseKeyError
       ELSE /\ IF processed_df = << >>
               THEN Returns("location", << >>, << >>, << >>, << >>, << >>, << >>,
                            LocationInsightList(<< >>))
               ELSE \E sorted \in SortedValueCounts(processed_df, c_location) :
                       Returns("location", << >>, << >>, << >>, << >>, sorted, << >>,
                               LocationInsightList(sorted))
            /\ stage' = "recs"
            /\ exc' = exc
    /\ UNCHANGED << normVars, tableVars, recommendations >>

\* The top entries that the sorted aggregates can have: of the aggregates it
\* sorts, get_overall_recommendations reads index[0] and iloc[0] only
TopEntries(aggregates) == {SeriesHead(sorted, 1) : sorted \in aggregates}

\* get_overall_recommendations (lines 348-435), called at line 662; it sorts
\* its own aggregates (lines 401, 413, 425)
GetOverallRecommendations ==
    /\ stage = "recs"
    /\ IF IsEmpty(processed_df, processed_columns)
       THEN recommendations' =
                OverallRecommendations(processed_df, processed_columns, << >>, << >>, << >>)
       ELSE \E platforms \in TopEntries(SortedGroupSums(processed_df, c_platform)) :
            \E media_types \in TopEntries(SortedValueCounts(processed_df, c_mediatype)) :
            \E locations \in TopEntries(SortedValueCounts(processed_df, c_location)) :
                recommendations' =
                    OverallRecommendations(processed_df, processed_columns,
                                           platforms, media_types, locations)
    /\ Returns("recs", << >>, << >>, << >>, << >>, << >>, << >>, << >>)
    /\ stage' = "done"
    /\ UNCHANGED << normVars, uploadVars >>

NextInsights ==
    \/ GetSentimentInsights
    \/ GetEngagementInsights
    \/ GetPlatformInsights
    \/ GetMediaTypeInsights
    \/ CreateLocationBarChart
    \/ GetLocationInsights
    \/ GetOverallRecommendations

SpecCategory == InitCategory /\ [][NextInsights]_vars

SpecDaily == InitDaily /\ [][NextInsights]_vars

(***************************************************************************)
(* SpecSentiment: the same calls on tables that vary the sentiment, over   *)
(* the three values get_overall_recommendations counts and 'Unknown'.      *)
(***************************************************************************)
SentimentPool == {Positive, Negative, Neutral, Unknown}

SentimentRecords == {[CleanRecord(NaT, 1, 0) EXCEPT !.sentiment = s] : s \in SentimentPool}

SentimentTables == UNION {[1..n -> SentimentRecords] : n \in 1..MaxSentimentRows}

InitSentiment == processed_df \in SentimentTables /\ InsightsStart

SpecSentiment == InitSentiment /\ [][NextInsights]_vars

(***************************************************************************)
(* SpecTrend: the same calls on tables that vary the date over three days  *)
(* and the engagements around a change of 10%.                             *)
(***************************************************************************)
Day3 == Day2 + 1
TrendDates == {NaT, Timestamp(Day1, 0), Timestamp(Day2, 0), Timestamp(Day3, 0)}
TrendEngagements == {0, 9, 10, 11}

TrendRecords == {CleanRecord(d, 1, e) : d \in TrendDates, e \in TrendEngagements}

TrendTables == UNION {[1..n -> TrendRecords] : n \in 1..MaxTrendRows}

InitTrend == processed_df \in TrendTables /\ InsightsStart

SpecTrend == InitTrend /\ [][NextInsights]_vars

(***************************************************************************)
(* SpecLocation: the same calls on tables that vary the location over six  *)
(* names, one more than the chart shows.  A table is given by the number   *)
(* of rows of each name; the rows of a name are adjacent, which no         *)
(* aggregate can tell from another order, since the sort may arrange equal *)
(* counts in any way.                                                      *)
(***************************************************************************)
LocationPool ==
    << << "R","o","m","e" >>, << "O","s","l","o" >>, << "L","i","m","a" >>,
       << "B","o","n","n" >>, << "N","i","c","e" >>, Unknown >>

\* n rows of the location
RowsOf(location, n) == [r \in 1..n |-> [CleanRecord(NaT, 1, 0) EXCEPT !.location = location]]

RECURSIVE LocationTable(_, _)
LocationTable(counts, k) ==
    IF k > Len(LocationPool) THEN << >>
    ELSE RowsOf(LocationPool[k], counts[k]) \o LocationTable(counts, k + 1)

LocationCounts ==
    {counts \in [DOMAIN LocationPool -> 0..MaxLocationCount] :
        \E k \in DOMAIN LocationPool : counts[k] > 0}

InitLocation ==
    /\ \E counts \in LocationCounts : processed_df = LocationTable(counts, 1)
    /\ InsightsStart

SpecLocation == InitLocation /\ [][NextInsights]_vars

(***************************************************************************)
(* SpecText: the same calls on tables whose category values hold the       *)
(* character '*', which str(value).strip() (line 166) keeps.               *)
(***************************************************************************)
StarNames == << << "X" >>, << "*", "*", "X" >>, << "*" >> >>

TextRecords ==
    {[date        |-> d,
      platform    |-> StarNames[k],
      sentiment   |-> StarNames[k],
      location    |-> StarNames[k],
      engagements |-> e,
      mediatype   |-> StarNames[k]] :
        d \in {NaT, Timestamp(Day1, 0)}, k \in DOMAIN StarNames, e \in CategoryEngagements}

TextTables == UNION {[1..n -> TextRecords] : n \in 1..MaxTextRows}

InitText == processed_df \in TextTables /\ InsightsStart

SpecText == InitText /\ [][NextInsights]_vars

(***************************************************************************)
(* SpecDirect: one of the five insight functions is called on a table,     *)
(* the calls of the page that follow it after it.  The table is the empty  *)
(* DataFrame process_csv returns at line 140, a table with the six columns *)
(* and no rows, or a cleaned table with rows.                              *)
(***************************************************************************)
DirectRecords == CategoryRecords \cup DailyRecords

DirectTables == UNION {[1..n -> DirectRecords] : n \in 1..MaxDirectRows}

InsightStages == {"sentiment", "engagement", "platform", "media", "location"}

InitDirect ==
    /\ \/ processed_df = << >> /\ processed_columns = << >>
       \/ processed_df = << >> /\ processed_columns = expected_columns
       \/ processed_df \in DirectTables /\ processed_columns = expected_columns
    /\ raw = NoTable /\ df = NoTable /\ pc = "done" /\ exc = "none"
    /\ header = << >> /\ norm1 = << >> /\ norm2 = << >> /\ npc = "idle"
    /\ stage \in InsightStages
    /\ NothingComputed

SpecDirect == InitDirect /\ [][NextInsights]_vars

(***************************************************************************)
(* Claims about the aggregates                                             *)
(***************************************************************************)
\* The function of stage s has just returned: what it computed is in the state
Past(s) == returned = s

RowsWith(col, key) == {r \in DOMAIN processed_df : Field(processed_df[r], col) = key}
FirstRowWith(col, key) == CHOOSE r \in RowsWith(col, key) : \A q \in RowsWith(col, key) : r <= q

RowCount(col, key) == Cardinality(RowsWith(col, key))

RECURSIVE EngagementsOfRows(_)
EngagementsOfRows(rows) ==
    IF rows = {} THEN 0
    ELSE LET r == CHOOSE x \in rows : TRUE
         IN  processed_df[r].engagements + EngagementsOfRows(rows \ {r})

Magnitude(col, key) ==
    IF col = c_platform THEN EngagementsOfRows(RowsWith(col, key)) ELSE RowCount(col, key)

\* The aggregate lists every distinct value of the column once, with its
\* magnitude
ListsEveryValueOnce(series, col) ==
    /\ {series[i].key : i \in DOMAIN series} = {Field(processed_df[r], col) : r \in DOMAIN processed_df}
    /\ \A i, j \in DOMAIN series : i # j => series[i].key # series[j].key
    /\ \A i \in DOMAIN series : series[i].val = Magnitude(col, series[i].key)

DescendingTiesFirstSeen(series, col) ==
    \A i, j \in DOMAIN series :
        i < j => \/ series[i].val > series[j].val
                 \/ /\ series[i].val = series[j].val
                    /\ FirstRowWith(col, series[i].key) < FirstRowWith(col, series[j].key)

Descending(series) ==
    \A i, j \in DOMAIN series : i < j => series[i].val >= series[j].val

\* C9 as stated: every category aggregate lists each distinct value once in
\* descending magnitude, values of equal magnitude in the order of their
\* first appearance in the cleaned table.
C9_TiesInFirstSeenOrder ==
    /\ Past("sentiment") =>
          /\ ListsEveryValueOnce(sorted_sentiments, c_sentiment)
          /\ DescendingTiesFirstSeen(sorted_sentiments, c_sentiment)
    /\ Past("platform") =>
          /\ ListsEveryValueOnce(sorted_platforms, c_platform)
          /\ DescendingTiesFirstSeen(sorted_platforms, c_platform)
    /\ Past("media") =>
          /\ ListsEveryValueOnce(sorted_media_types, c_mediatype)
          /\ DescendingTiesFirstSeen(sorted_media_types, c_mediatype)
    /\ Past("location") =>
          /\ ListsEveryValueOnce(sorted_locations, c_location)
          /\ DescendingTiesFirstSeen(sorted_locations, c_location)

\* C9 amended: every category aggregate lists each distinct value once, with
\* its row count (summed engagements for platform), in non-increasing
\* magnitude, so that the top item has the maximum magnitude; the order among
\* values of equal magnitude is not fixed.
C9_RankedDescending ==
    /\ Past("sentiment") =>
          /\ ListsEveryValueOnce(sorted_sentiments, c_sentiment)
          /\ Descending(sorted_sentiments)
    /\ Past("platform") =>
          /\ ListsEveryValueOnce(sorted_platforms, c_platform)
          /\ Descending(sorted_platforms)
    /\ Past("media") =>
          /\ ListsEveryValueOnce(sorted_media_types, c_mediatype)
          /\ Descending(sorted_media_types)
    /\ Past("location") =>
          /\ ListsEveryValueOnce(sorted_locations, c_location)
          /\ Descending(sorted_locations)

C9_Witness ==
    /\ Past("platform")
    /\ Len(sorted_platforms) = 3
    /\ sorted_platforms[1].val = sorted_platforms[2].val
    /\ sorted_platforms[2].val > sorted_platforms[3].val
    /\ RowCount(c_sentiment, Positive) > RowCount(c_sentiment, Negative)
    /\ RowCount(c_sentiment, Negative) = RowCount(c_sentiment, Neutral)
    /\ RowCount(c_sentiment, Neutral) > 0

DatedRows == {r \in DOMAIN processed_df : processed_df[r].date # NaT}
RowsOfDay(day) == {r \in DatedRows : processed_df[r].date.day = day}

\* C10: the daily series has one entry per distinct calendar date of the rows
\* with a date, in strictly ascending date order, each holding the sum of
\* engagements of the rows of that date; rows without a date count nowhere.
C10_DailySeries ==
    Past("engagement") =>
        /\ {engagements_by_date[i].key : i \in DOMAIN engagements_by_date}
              = {processed_df[r].date.day : r \in DatedRows}
        /\ \A i, j \in DOMAIN engagements_by_date :
              i < j => engagements_by_date[i].key < engagements_by_date[j].key
        /\ \A i \in DOMAIN engagements_by_date :
              engagements_by_date[i].val = EngagementsOfRows(RowsOfDay(engagements_by_date[i].key))

C10_Witness ==
    /\ Past("engagement")
    /\ Len(engagements_by_date) = 1
    /\ engagements_by_date[1].val = 22
    /\ \E r, q, m \in DOMAIN processed_df :
          /\ processed_df[r].date = Timestamp(Day1, 0) /\ processed_df[r].engagements = 10
          /\ processed_df[q].date = Timestamp(Day1, Noon) /\ processed_df[q].engagements = 12
          /\ processed_df[m].date = NaT /\ processed_df[m].engagements = 9

(***************************************************************************)
(* Claims about the insight texts and the recommendations                  *)
(***************************************************************************)
Days == {processed_df[r].date.day : r \in DatedRows}
DaySum(day) == EngagementsOfRows(RowsOfDay(day))
MaxDaySum == CHOOSE v \in {DaySum(d) : d \in Days} : \A d \in Days : DaySum(d) <= v
MinDaySum == CHOOSE v \in {DaySum(d) : d \in Days} : \A d \in Days : DaySum(d) >= v
EarliestDayWith(v) ==
    CHOOSE d \in Days : DaySum(d) = v /\ \A e \in Days : DaySum(e) = v => d <= e
TotalOfDays == EngagementsOfRows(DatedRows)

\* The whole number a is total / count rounded to a nearest whole number
NearestWhole(a, total, count) ==
    /\ 2 * (a * count - total) <= count
    /\ 2 * (total - a * count) <= count

\* C11: for a table with a dated row, get_engagement_insights reports the
\* largest daily sum with the earliest date that attains it, the smallest
\* daily sum with the earliest date that attains it, and as average the
\* total of the daily sums divided by the number of distinct dates (shown
\* as a whole number), not by the number of rows.
C11_ExtremesAndAverage ==
    (Past("engagement") /\ DatedRows # {}) =>
        /\ Len(insights) = 3
        /\ insights[1] = PeakInsight(DateStr(EarliestDayWith(MaxDaySum)), IntStr(MaxDaySum))
        /\ insights[2] = LowInsight(DateStr(EarliestDayWith(MinDaySum)), IntStr(MinDaySum))
        /\ \E a \in 0..TotalOfDays :
              /\ insights[3] = AverageInsight(IntStr(a))
              /\ NearestWhole(a, TotalOfDays, Cardinality(Days))

C11_Witness ==
    /\ Past("engagement")
    /\ Len(processed_df) = 3
    /\ Days = {Day1, Day2}
    /\ DaySum(Day1) = 10 /\ DaySum(Day2) = 10
    /\ insights[1] = PeakInsight(t_day, << "1", "0" >>)
    /\ insights[3] = AverageInsight(<< "1", "0" >>)

NoDataStatement(s) ==
    CASE s = "sentiment" -> NoSentimentData
      [] s = "engagement" -> NoEngagementData
      [] s = "platform" -> NoPlatformData
      [] s = "media" -> NoMediaTypeData
      [] s = "location" -> NoLocationData

\* C12: on a table without rows, the empty table of process_csv included,
\* each of the five insight functions returns its single 'no data' statement
\* and none raises; get_engagement_insights does so too when there are rows
\* but none has a date.
C12_NoDataOnEmptyTable ==
    /\ processed_df = << >> =>
          /\ stage # "raised"
          /\ \A s \in InsightStages : Past(s) => insights = << NoDataStatement(s) >>
    /\ (Past("engagement") /\ DatedRows = {}) => insights = << NoEngagementData >>

\* The sentiment name has strictly more rows than each of the other two
Dominates(name) ==
    \A other \in {Positive, Negative, Neutral} \ {name} :
        RowCount(c_sentiment, name) > RowCount(c_sentiment, other)

SentimentStatements ==
    {AudienceLoving, NegativeSentiment, NeutralSentiment, MixedBag, NoClearSentiment}

\* C13: for a table with rows the sentiment recommendation is the 'Positive'
\* (resp. 'Negative', 'Neutral') statement exactly when that sentiment has
\* strictly more rows than each of the other two, and the mixed statement in
\* every other case (a tie for the largest count, none of the three values);
\* exactly one sentiment statement is produced.
C13_SentimentDominance ==
    Past("recs") =>
        /\ Len(recommendations) = 5
        /\ recommendations[1] = AudienceLoving <=> Dominates(Positive)
        /\ recommendations[1] = NegativeSentiment <=> Dominates(Negative)
        /\ recommendations[1] = NeutralSentiment <=> Dominates(Neutral)
        /\ recommendations[1] = MixedBag <=>
              ~(Dominates(Positive) \/ Dominates(Negative) \/ Dominates(Neutral))
        /\ \A i \in 2..5 : recommendations[i] \notin SentimentStatements

C13_Witness ==
    /\ Past("recs")
    /\ Len(processed_df) = 4
    /\ RowCount(c_sentiment, Positive) = 2
    /\ RowCount(c_sentiment, Negative) = 2
    /\ recommendations[1] = MixedBag

FirstDay == CHOOSE d \in Days : \A e \in Days : d <= e
LastDay == CHOOSE d \in Days : \A e \in Days : d >= e

\* The trend statement for a series of two or more dates, by its first and
\* last daily sums
TrendOf(first, last) ==
    IF 10 * last > 11 * first THEN UpwardTrajectory
    ELSE IF 10 * last < 9 * first THEN EngagementDeclining
    ELSE StableEngagement

\* C14 as stated: the trend recommendation depends only on the number of
\* distinct dates and on the first and last daily sums: 'no data' without a
\* dated row, 'limited data' with one date, and with two or more dates
\* 'upward' / 'declining' when last is more than 10% above / below first and
\* 'stable' in every other case, a series of zero sums included.
C14_TrendByFirstAndLast ==
    Past("recs") =>
        recommendations[2] =
            IF Days = {} THEN NoEngagementFound
            ELSE IF Cardinality(Days) = 1 THEN LimitedEngagementData
            ELSE TrendOf(DaySum(FirstDay), DaySum(LastDay))

\* C14 amended: as above, except that with two or more dates whose daily
\* sums are all zero the statement is 'no clear trend yet', not 'stable'; so
\* the statement depends on the number of distinct dates, the first and last
\* daily sums and whether the total is zero.
C14_TrendUnlessAllZero ==
    Past("recs") =>
        recommendations[2] =
            IF Days = {} THEN NoEngagementFound
            ELSE IF Cardinality(Days) = 1 THEN LimitedEngagementData
            ELSE IF TotalOfDays = 0 THEN NoClearTrend
            ELSE TrendOf(DaySum(FirstDay), DaySum(LastDay))

C14_Witness ==
    /\ Past("recs")
    /\ Len(processed_df) = 3
    /\ Days = {Day1, Day3}
    /\ DaySum(Day1) = 10 /\ DaySum(Day3) = 11
    /\ recommendations[2] = StableEngagement

ColumnValues(col) == {Field(processed_df[r], col) : r \in DOMAIN processed_df}

\* The values of the column that no other value exceeds in magnitude
TopValues(col) ==
    {v \in ColumnValues(col) : \A w \in ColumnValues(col) : Magnitude(col, w) <= Magnitude(col, v)}

Sentinel(col) == IF col = c_mediatype THEN UnknownMediaType ELSE Unknown

FocusStatement(col, v) ==
    CASE col = c_platform -> FocusOn(v)
      [] col = c_mediatype -> ContentIsAHit(v)
      [] col = c_location -> Target(v)

MissingStatement(col) ==
    CASE col = c_platform -> PlatformMissing
      [] col = c_mediatype -> MediaTypeMissing
      [] col = c_location -> LocationMissing

RecommendationOf(col) ==
    CASE col = c_platform -> recommendations[3]
      [] col = c_mediatype -> recommendations[4]
      [] col = c_location -> recommendations[5]

\* C15: for platform, media type and location of a table with rows, the
\* recommendation is the 'focus' statement naming a top-ranked value that is
\* not the column's sentinel, or the 'data missing' statement when the
\* sentinel is top-ranked; the 'no data found' statement is kept for an empty
\* aggregate, so platforms whose summed engagements are all zero still get
\* the 'focus' statement.
C15_FocusUnlessSentinel ==
    Past("recs") =>
        \A col \in {c_platform, c_mediatype, c_location} :
            \/ \E v \in TopValues(col) \ {Sentinel(col)} :
                  RecommendationOf(col) = FocusStatement(col, v)
            \/ /\ Sentinel(col) \in TopValues(col)
               /\ RecommendationOf(col) = MissingStatement(col)

\* The locations of the chart's frame
Kept == {location_counts[i].key : i \in DOMAIN location_counts}

\* C16: the frame of the 'Top 5 Locations' chart has min(5, number of
\* distinct locations) entries, each a distinct location with its row count,
\* in descending order of count, and no location left out has a count
\* strictly greater than a location kept.
C16_TopFiveLocations ==
    Past("chart") =>
        /\ Len(location_counts) =
              IF Cardinality(ColumnValues(c_location)) < 5
              THEN Cardinality(ColumnValues(c_location)) ELSE 5
        /\ Kept \subseteq ColumnValues(c_location)
        /\ \A i, j \in DOMAIN location_counts :
              i # j => location_counts[i].key # location_counts[j].key
        /\ \A i \in DOMAIN location_counts :
              location_counts[i].val = RowCount(c_location, location_counts[i].key)
        /\ Descending(location_counts)
        /\ \A out \in ColumnValues(c_location) \ Kept : \A in \in Kept :
              RowCount(c_location, out) <= RowCount(c_location, in)

C16_Witness ==
    /\ Past("chart")
    /\ Cardinality(ColumnValues(c_location)) = 6
    /\ Len(location_counts) = 5
    /\ location_counts[3].val = 2
    /\ location_counts[5].val = 1
    /\ \E out \in ColumnValues(c_location) \ Kept : RowCount(c_location, out) = 1

\* Fewer than five locations have strictly more rows than the location
AmongTopFive(location) ==
    Cardinality({other \in ColumnValues(c_location) :
                    RowCount(c_location, other) > RowCount(c_location, location)}) < 5

\* C18: the location that the second location insight names as 'among the
\* top 5' is one of the five locations with the highest row counts.
C18_NamedAmongTopFive ==
    (Past("location") /\ processed_df # << >>) =>
        \E location \in ColumnValues(c_location) :
            /\ insights[2] = NurtureInsight(location, IntStr(RowCount(c_location, location)))
            /\ AmongTopFive(location)

\* The text holds an even number of markers '**', and chapter_body, given the
\* text as a line, ends it in regular weight
MarkersPaired(text) ==
    /\ Len(SplitBold(text, << >>)) % 2 = 1
    /\ \A line \in {chapter_body(text)[l] : l \in DOMAIN chapter_body(text)} :
          ~line[Len(line)].bold

\* C17: every insight and recommendation text generated from a cleaned table
\* holds the marker '**' an even number of times, so that chapter_body ends
\* each line in regular weight; the values interpolated from the data do not
\* break the pairing.
C17_BoldMarkersPaired ==
    /\ \A i \in DOMAIN insights : MarkersPaired(insights[i])
    /\ \A i \in DOMAIN recommendations : MarkersPaired(recommendations[i])
    /\ Len(chapter_body(JoinLines(insights))) = Len(insights)
    /\ Len(chapter_body(JoinLines(recommendations))) = Len(recommendations)

=============================================================================
